---- MODULE Spec2Model ----
(***************************************************************************)
(* The delay line of the Whammy plug-in (src/src/lib.rs): the ring buffer, *)
(* its write cursor, the read position derived from the smoothed `dive`    *)
(* parameter, and the two-tap interpolation, driven by the host callbacks  *)
(* initialize, reset and process.                                          *)
(*                                                                         *)
(* Numbers.  The code computes the read position in f32.  Here a position  *)
(* is an integer count of 1/Frac-sample steps, so `write_pos as f32` is    *)
(* write_pos * Frac and a position p splits into the slot p \div Frac and  *)
(* the fraction (p % Frac) / Frac.  The product `smoothed.next() * 1000.`  *)
(* is an integer d of the same unit, -(DiveScale * Frac) <= d <= 0.        *)
(* Interpolated values are kept doubled, so that `* 0.5` stays integral.   *)
(* The buffer length 44100 * 3, the factor 1000 and the envelope length    *)
(* 2 * 22050 are scaled down (BaseRate, DiveScale, EnvHalf); the order     *)
(* DiveScale < Capacity of the code is kept.                               *)
(***************************************************************************)
EXTENDS Integers, Sequences, FiniteSets

\* ---- bounds of the model ------------------------------------------------
\* stands for the 44100 of `44100 * 3` (lib.rs:30)
BaseRate == 1
\* stands for the 1000. of `next() * 1000.` (lib.rs:160)
DiveScale == 2
\* sub-sample steps per sample: resolution of the fractional read position
Frac == 2
\* stands for the 22050 of the two envelope loops (lib.rs:39, 43)
EnvHalf == 1
\* largest number of frames the host passes in one block
MaxFrames == 2

\* ---- program constants --------------------------------------------------
\* the 3 of `44100 * 3`
MaxDelaySeconds == 3
\* main_input_channels / main_output_channels
NumChannels == 2

\* ---- inputs -------------------------------------------------------------
\* sample values the host feeds in (two values tell slots apart)
Samples == {0, 1}
\* `self.params.dive.smoothed.next() * 1000.` for dive in [-1, 0]
DiveValues == (0 - DiveScale * Frac)..0
\* sample rates the host may negotiate (44100 and 88200, scaled)
HostRates == {BaseRate, 2 * BaseRate}
\* marks a buffer slot no sample was written to yet
NoChannel == 0 - 1

VARIABLES
    buffer,        \* self.buffer: slot -> sample
    write_pos,     \* self.write_pos
    envelope_pos,  \* self.envelope_pos
    phase,         \* the host callback last entered, or "panicked"
    sample_rate,   \* BufferConfig.sample_rate of the last initialize (0: none)
    blk,           \* position of process in its block: frames, frame, chan
    loc,           \* locals of the last executed loop body of process
    wp0,           \* history: write_pos when the current block started
    nexts,         \* history: smoothed.next() calls made in the current block
    hist,          \* history: the last Capacity input samples, newest last
    trail,         \* history: the slots of the last Capacity writes, newest last
    owner          \* history: slot -> channel whose sample it holds

vars == <<buffer, write_pos, envelope_pos, phase, sample_rate, blk, loc,
          wp0, nexts, hist, trail, owner>>

\* ---- construction -------------------------------------------------------
\* buffer.len() of the constructed engine
Capacity == BaseRate * MaxDelaySeconds

\* the zeroed ring buffer pushed by Default::default
ZeroBuffer == [i \in 0..(Capacity - 1) |-> 0]

\* the triangular envelope, in units of inc: rise 0..EnvHalf-1, fall back to 0
envelope == [i \in 0..(2 * EnvHalf - 1) |-> IF i < EnvHalf THEN i ELSE 2 * EnvHalf - 1 - i]

\* vec.len()
VecLen(v) == Cardinality(DOMAIN v)

NoLoc == [ran |-> FALSE, sample |-> 0, dive |-> 0, wp |-> 0, frame |-> 0, chan |-> 0,
          delayed_read |-> 0, wrapped |-> 0, low_idx |-> 0, high_idx |-> 0,
          low_sample |-> 0, high_sample |-> 0, out2 |-> 0]

Init ==
    /\ buffer = ZeroBuffer
    /\ write_pos = 0
    /\ envelope_pos = 0
    /\ phase = "constructed"
    /\ sample_rate = 0
    /\ blk = [frames |-> 0, frame |-> 0, chan |-> 0]
    /\ loc = NoLoc
    /\ wp0 = 0
    /\ nexts = 0
    /\ hist = <<>>
    /\ trail = <<>>
    /\ owner = [i \in 0..(Capacity - 1) |-> NoChannel]

\* ---- the arithmetic of process and interpolate --------------------------
\* self.buffer[self.write_pos] = sample.clone()
WriteSample(buf, wp, s) == [buf EXCEPT ![wp] = s]

\* a delay clamped at zero instead of wrapped
DelayedRead_Clamped(wp, d) == wp * Frac - (IF d < 0 THEN 0 ELSE d)

\* the read position taken from the already advanced cursor
DelayedRead_Advanced(wp, d) == ((wp + 1) % Capacity) * Frac - d

\* delayed_read = self.write_pos as f32 - next() * 1000.
DelayedRead(wp, d) == wp * Frac - d

\* the else branch without its `%`
Wrap_NoModulo(delayed_read, len) ==
    IF delayed_read < 0 THEN len * Frac + delayed_read ELSE delayed_read

\* wrapped = if delayed_read < 0. { len + delayed_read } else { delayed_read % len }
Wrap(delayed_read, len) ==
    IF delayed_read < 0
    THEN len * Frac + delayed_read
    ELSE delayed_read % (len * Frac)

\* low_idx = *f_idx as usize: truncates, and saturates a negative value to 0
LowIdx(f_idx) == IF f_idx < 0 THEN 0 ELSE f_idx \div Frac

\* high_idx = (low_idx + 1) % buffer.len()
HighIdx(low_idx, len) == (low_idx + 1) % len

\* twice (low_sample + high_sample) * 0.5
Interpolate(f_idx, buf) ==
    LET low_idx == LowIdx(f_idx)
        high_idx == HighIdx(low_idx, VecLen(buf))
    IN  buf[low_idx] + buf[high_idx]

\* the cursor advanced without the `%`
NextPos_NoWrap(wp, len) == wp + 1

\* the cursor advanced by a whole frame
NextPos_Frame(wp, len) == (wp + NumChannels) % len

\* self.write_pos = (self.write_pos + 1) % self.buffer.len()
NextPos(wp, len) == (wp + 1) % len

\* keep the newest Capacity entries of a history
Window(seq) == IF Len(seq) > Capacity THEN Tail(seq) ELSE seq

\* ---- host callbacks -----------------------------------------------------
\* initialize: returns true and touches nothing; the host's rate is dropped
Initialize(sr) ==
    /\ phase \in {"constructed", "reset", "processed"}
    /\ phase' = "initialized"
    /\ sample_rate' = sr
    /\ UNCHANGED <<buffer, write_pos, envelope_pos, blk, loc, wp0, nexts, hist, trail, owner>>

\* reset: empty body
Reset ==
    /\ phase \in {"initialized", "processed"}
    /\ phase' = "reset"
    /\ UNCHANGED <<buffer, write_pos, envelope_pos, sample_rate, blk, loc, wp0, nexts,
                   hist, trail, owner>>

\* process is entered with a block of n frames of NumChannels samples each
Process(n) ==
    /\ phase \in {"reset", "processed"}
    /\ phase' = "processing"
    /\ blk' = [frames |-> n, frame |-> 0, chan |-> 0]
    /\ wp0' = write_pos
    /\ nexts' = 0
    /\ UNCHANGED <<buffer, write_pos, envelope_pos, sample_rate, loc, hist, trail, owner>>

\* one pass of the inner loop: channel blk.chan of frame blk.frame, with input
\* sample s and smoothed value d; the last pass returns ProcessStatus::Normal
ProcessSample(s, d) ==
    /\ phase = "processing"
    /\ LET len == VecLen(buffer)
           wp == write_pos
           delayed_read == DelayedRead(wp, d)
           wrapped == Wrap(delayed_read, len)
           low_idx == LowIdx(wrapped)
           high_idx == HighIdx(low_idx, len)
           inside == {wp, low_idx, high_idx} \subseteq DOMAIN buffer
           buf == WriteSample(buffer, wp, s)
           lastChan == blk.chan + 1 = NumChannels
           lastFrame == lastChan /\ blk.frame + 1 = blk.frames
       IN  /\ nexts' = nexts + 1
           /\ IF inside
              THEN /\ buffer' = buf
                   /\ loc' = [ran |-> TRUE, sample |-> s, dive |-> d, wp |-> wp,
                              frame |-> blk.frame, chan |-> blk.chan,
                              delayed_read |-> delayed_read, wrapped |-> wrapped,
                              low_idx |-> low_idx, high_idx |-> high_idx,
                              low_sample |-> buf[low_idx], high_sample |-> buf[high_idx],
                              out2 |-> Interpolate(wrapped, buf)]
                   /\ write_pos' = NextPos(wp, len)
                   /\ envelope_pos' = (envelope_pos + 1) % VecLen(envelope)
                   /\ blk' = [blk EXCEPT !.chan = IF lastChan THEN 0 ELSE @ + 1,
                                         !.frame = IF lastChan THEN @ + 1 ELSE @]
                   /\ phase' = IF lastFrame THEN "processed" ELSE "processing"
                   /\ hist' = Window(Append(hist, s))
                   /\ trail' = Window(Append(trail, wp))
                   /\ owner' = [owner EXCEPT ![wp] = blk.chan]
              ELSE \* an index outside the buffer panics
                   /\ phase' = "panicked"
                   /\ loc' = [NoLoc EXCEPT !.ran = TRUE, !.sample = s, !.dive = d, !.wp = wp,
                                           !.delayed_read = delayed_read,
                                           !.wrapped = wrapped,
                                           !.low_idx = low_idx, !.high_idx = high_idx]
                   /\ UNCHANGED <<buffer, write_pos, envelope_pos, blk, hist, trail, owner>>
    /\ UNCHANGED <<sample_rate, wp0>>

Next ==
    \/ \E sr \in HostRates : Initialize(sr)
    \/ Reset
    \/ \E n \in 1..MaxFrames : Process(n)
    \/ \E s \in Samples, d \in DiveValues : ProcessSample(s, d)

Spec == Init /\ [][Next]_vars

\* ---- properties ---------------------------------------------------------
\* interpolation fraction of the last read position, in 1/Frac steps
LocFrac == loc.wrapped % Frac

\* samples between the write cursor and the low slot read: the delay in effect
LocDelay == (loc.wp - loc.low_idx) % VecLen(buffer)

\* the input sample fed in `age` samples before the newest one
Earlier(age) == hist[Len(hist) - age]

\* C1: after any sequence of processed samples, for every write_pos and every
\* smoothed dive value of the range, the wrapped read position and both slots
\* interpolate indexes lie inside the buffer; no access panics.
C1_IndicesInBounds ==
    /\ phase # "panicked"
    /\ write_pos \in 0..(VecLen(buffer) - 1)
    /\ loc.ran =>
          /\ loc.wrapped \in 0..(VecLen(buffer) * Frac - 1)
          /\ loc.low_idx \in 0..(VecLen(buffer) - 1)
          /\ loc.high_idx \in 0..(VecLen(buffer) - 1)

\* the deepest dive read from the last slot: the read position wraps
C1_Witness ==
    /\ loc.ran
    /\ loc.dive = 0 - DiveScale * Frac
    /\ loc.wp = Capacity - 1
    /\ loc.low_idx < loc.wp

\* C2: with an integer delay d and zero interpolation fraction, the output of
\* sample n >= d is exactly the input of sample n - d.
C2_ExactDelay ==
    (loc.ran /\ LocFrac = 0 /\ Len(hist) > LocDelay) => loc.out2 = 2 * Earlier(LocDelay)

\* C3: interpolate returns (1-f) * buffer[k] + f * buffer[k+1] for the read
\* position k + f (the doubled output, times Frac, on both sides).
C3_WeightedInterpolation ==
    loc.ran =>
        Frac * loc.out2 = 2 * ((Frac - LocFrac) * loc.low_sample + LocFrac * loc.high_sample)

\* C4: after reset the engine is in the state of a freshly constructed one:
\* buffer all zero, write_pos and envelope_pos at their initial values.
C4_ResetRestoresFresh ==
    phase = "reset" => (buffer = ZeroBuffer /\ write_pos = 0 /\ envelope_pos = 0)

\* C5: no slot read by interpolate lies ahead of the write cursor: both slots
\* hold a sample written on this or an earlier step, and the read position is
\* not past write_pos.
C5_NoReadAhead ==
    loc.ran =>
        /\ owner[loc.low_idx] # NoChannel
        /\ owner[loc.high_idx] # NoChannel
        /\ loc.delayed_read <= loc.wp * Frac

\* C6: write_pos stays in [0, capacity); each processed sample is stored at
\* write_pos, which then advances by one modulo capacity; write_pos is back at
\* a value after exactly capacity writes and after no smaller number.
C6_WritePosCycle ==
    /\ write_pos \in 0..(VecLen(buffer) - 1)
    /\ loc.ran => (buffer[loc.wp] = loc.sample /\ write_pos = (loc.wp + 1) % VecLen(buffer))
    /\ \A k \in 1..Len(trail) :
          (trail[Len(trail) - k + 1] = write_pos) <=> (k = VecLen(buffer))

\* capacity writes were made and the cursor is back where the oldest one went
C6_Witness ==
    /\ loc.ran
    /\ Len(trail) = Capacity
    /\ trail[1] = write_pos
    /\ write_pos # 0

\* C7: once initialize was called with sample rate sr, the buffer capacity is
\* sr times the maximum delay in seconds.
C7_CapacityFromSampleRate ==
    phase # "constructed" => VecLen(buffer) = sample_rate * MaxDelaySeconds

\* C8: a negative integer delay d = dive * 1000 is wrapped, not clamped: the
\* low slot read is (write_pos - d) mod capacity, and once the buffer is full
\* it holds the input written capacity + d samples before the current one.
C8_NegativeDelayWraps ==
    (loc.ran /\ loc.dive < 0 /\ loc.dive % Frac = 0) =>
        LET d == 0 - ((0 - loc.dive) \div Frac)
        IN  /\ loc.low_idx = (loc.wp - d) % VecLen(buffer)
            /\ Len(hist) = VecLen(buffer) => loc.low_sample = Earlier(VecLen(buffer) + d)

\* a full buffer read one sample deep, where the slot read differs from the
\* sample a zero delay reads
C8_Witness ==
    /\ loc.ran
    /\ loc.dive = 0 - Frac
    /\ Len(hist) = Capacity
    /\ loc.low_sample # loc.sample

\* C9 as stated: write, advance writeIndex, pull one next(), compute the read
\* position from the advanced writeIndex, interpolate, emit; one next() per
\* sample.
C9_AdvanceBeforeRead ==
    /\ nexts = blk.frame * NumChannels + blk.chan
    /\ loc.ran =>
          /\ buffer[loc.wp] = loc.sample
          /\ write_pos = (loc.wp + 1) % VecLen(buffer)
          /\ loc.delayed_read = write_pos * Frac - loc.dive
          /\ loc.out2 = buffer[loc.low_idx] + buffer[loc.high_idx]

\* C9 amended: write at write_pos, pull one next(), compute the read position
\* from the not yet advanced write_pos, interpolate over the buffer that holds
\* the new sample, emit, and only then advance write_pos; one next() per
\* sample.
C9_ReadBeforeAdvance ==
    /\ nexts = blk.frame * NumChannels + blk.chan
    /\ loc.ran =>
          /\ buffer[loc.wp] = loc.sample
          /\ loc.delayed_read = loc.wp * Frac - loc.dive
          /\ loc.dive = 0 => loc.low_sample = loc.sample
          /\ loc.out2 = buffer[loc.low_idx] + buffer[loc.high_idx]
          /\ write_pos = (loc.wp + 1) % VecLen(buffer)

\* a whole block of the largest size was processed, the last sample with a
\* nonzero dive
C9_Witness ==
    /\ phase = "processed"
    /\ nexts = MaxFrames * NumChannels
    /\ loc.ran
    /\ loc.dive < 0
    /\ loc.sample = 1

====
